---- MODULE Spec2Model ----
(***************************************************************************)
(* Model of HotelBookingSystem (src/hotel_booking.py): the booking ledger, *)
(* the availability engine, the date helpers and the JSON store.           *)
(*                                                                         *)
(* Representation.  An optional value (Python's None or a value) is the    *)
(* empty tuple or a one-element tuple.  A date text is the tuple of its    *)
(* hyphen-separated numeric fields (<<2024, 2, 1>> is "2024-02-01");       *)
(* parse_date turns it into a day ordinal or None.  A booking id is the    *)
(* tuple of its characters.  A booking is a record whose key               *)
(* "cancelled_at" is absent until the booking is cancelled.                *)
(***************************************************************************)
EXTENDS Integers, Sequences, FiniteSets, TLC

VARIABLES bookings, store, now, call, ret, frames

vars == <<bookings, store, now, call, ret, frames>>

\* ---------- bounds ----------
\* datetime.now() is read at most MaxClockReads times after construction.
MaxClockReads == 2

\* ---------- optional values ----------
None == <<>>

Some(v) == <<v>>

\* ---------- room catalog ----------
rooms == [single |-> [price |-> 2000, total |-> 10],
          double |-> [price |-> 2500, total |-> 8],
          suite  |-> [price |-> 3000, total |-> 5]]

\* ---------- inputs ----------
RoomTypeInputs == {"suite", "double", "penthouse"}

DateInputs == {<<2024, 2, 1>>, <<2024, 2, 5>>, <<2024, 2, 6>>, <<2024, 13, 40>>}

\* the requests made: a suite for every pair of dates, and a double and a room
\* of an unknown type for the longest range and for two unparseable dates
CreateInputs ==
    {<<"suite", check_in, check_out>> : check_in \in DateInputs, check_out \in DateInputs}
    \cup {<<room_type, d, d>> : room_type \in RoomTypeInputs, d \in {<<2024, 13, 40>>}}
    \cup {<<room_type, <<2024, 2, 1>>, <<2024, 2, 6>>>> : room_type \in RoomTypeInputs}

GuestInputs == {[guest_name |-> "Asha", email |-> "asha@example.com",
                 phone |-> "555-0100", guests |-> 2]}

\* ---------- date helpers ----------
IsLeap(y) == (y % 4 = 0) /\ ((y % 100 # 0) \/ (y % 400 = 0))

DaysInMonth(y, m) ==
    IF m = 2 THEN (IF IsLeap(y) THEN 29 ELSE 28)
    ELSE IF m \in {4, 6, 9, 11} THEN 30 ELSE 31

RECURSIVE DaysBeforeMonth(_, _)
DaysBeforeMonth(y, m) ==
    IF m <= 1 THEN 0 ELSE DaysBeforeMonth(y, m - 1) + DaysInMonth(y, m - 1)

DaysBeforeYear(y) ==
    365 * (y - 1) + ((y - 1) \div 4) - ((y - 1) \div 100) + ((y - 1) \div 400)

\* datetime.strptime(date_str, '%Y-%m-%d').date(), as a day ordinal; None when
\* strptime raises
parse_date(date_str) ==
    IF /\ Len(date_str) = 3
       /\ date_str[1] \in 1..9999
       /\ date_str[2] \in 1..12
       /\ date_str[3] \in 1..DaysInMonth(date_str[1], date_str[2])
    THEN Some(DaysBeforeYear(date_str[1])
              + DaysBeforeMonth(date_str[1], date_str[2]) + date_str[3])
    ELSE None

calculate_nights(check_in, check_out) ==
    LET date_in == parse_date(check_in)
        date_out == parse_date(check_out)
    IN IF date_in = None \/ date_out = None
       THEN None
       ELSE Some(date_out[1] - date_in[1])

\* an overlap test that takes the check-out day as occupied
dates_overlap_closed(start1, end1, start2, end2) ==
    (start1 <= end2) /\ (start2 <= end1)

dates_overlap(start1, end1, start2, end2) ==
    (start1 < end2) /\ (start2 < end1)

\* ---------- booking ids ----------
DigitChars == <<"0", "1", "2", "3", "4", "5", "6", "7", "8", "9">>

IsDigit(c) == \E i \in 1..10 : DigitChars[i] = c

DigitValue(c) == (CHOOSE i \in 1..10 : DigitChars[i] = c) - 1

RECURSIVE Decimal(_)
Decimal(n) ==
    IF n < 10 THEN <<DigitChars[n + 1]>>
    ELSE Append(Decimal(n \div 10), DigitChars[(n % 10) + 1])

RECURSIVE ZeroPad(_, _)
ZeroPad(s, width) == IF Len(s) >= width THEN s ELSE ZeroPad(<<"0">> \o s, width)

\* f"BK{n:04d}"
FormatId(n) == <<"B", "K">> \o ZeroPad(Decimal(n), 4)

startswith_BK(bid) == Len(bid) >= 2 /\ bid[1] = "B" /\ bid[2] = "K"

RECURSIVE DigitsToInt(_)
DigitsToInt(s) ==
    IF s = <<>> THEN 0
    ELSE 10 * DigitsToInt(SubSeq(s, 1, Len(s) - 1)) + DigitValue(s[Len(s)])

\* int(bid[2:]); None when int raises ValueError
ParseSuffix(bid) ==
    LET s == SubSeq(bid, 3, Len(bid))
    IN IF s # <<>> /\ \A i \in 1..Len(s) : IsDigit(s[i])
       THEN Some(DigitsToInt(s))
       ELSE None

RECURSIVE MaxSuffix(_, _)
MaxSuffix(bks, max_n) ==
    IF bks = <<>> THEN max_n
    ELSE LET bid == Head(bks).booking_id
             n == IF startswith_BK(bid) THEN ParseSuffix(bid) ELSE None
         IN MaxSuffix(Tail(bks),
                      IF n # None /\ n[1] > max_n THEN n[1] ELSE max_n)

\* an id whose number is not padded: f"BK{max_n + 1}"
generate_booking_id_unpadded(bks) == <<"B", "K">> \o Decimal(MaxSuffix(bks, 0) + 1)

\* an id taken from the number of confirmed records, not from the highest suffix
generate_booking_id_by_count(bks) ==
    FormatId(Cardinality({i \in 1..Len(bks) : bks[i].status = "confirmed"}) + 1)

generate_booking_id(bks) == FormatId(MaxSuffix(bks, 0) + 1)

\* ---------- availability ----------
\* a count that forgets the status test
CountsAnyStatus(b, room_type, date_in, date_out) ==
    /\ b.room_type = room_type
    /\ dates_overlap(date_in, date_out,
                     parse_date(b.check_in)[1], parse_date(b.check_out)[1])

Counts(b, room_type, date_in, date_out) ==
    /\ b.room_type = room_type
    /\ b.status = "confirmed"
    /\ dates_overlap(date_in, date_out,
                     parse_date(b.check_in)[1], parse_date(b.check_out)[1])

RECURSIVE CountLoop(_, _, _, _)
CountLoop(bks, room_type, date_in, date_out) ==
    IF bks = <<>> THEN 0
    ELSE (IF Counts(Head(bks), room_type, date_in, date_out) THEN 1 ELSE 0)
         + CountLoop(Tail(bks), room_type, date_in, date_out)

booked_count_for_range(bks, room_type, check_in, check_out) ==
    LET date_in == parse_date(check_in)
        date_out == parse_date(check_out)
    IN IF date_in = None \/ date_out = None
       THEN None
       ELSE Some(CountLoop(bks, room_type, date_in[1], date_out[1]))

Max(a, b) == IF a >= b THEN a ELSE b

\* an availability that forgets the clamp at zero
available_rooms_unclamped(bks, room_type, check_in, check_out) ==
    IF room_type \notin DOMAIN rooms
    THEN None
    ELSE LET booked == booked_count_for_range(bks, room_type, check_in, check_out)
         IN IF booked = None
            THEN None
            ELSE Some(rooms[room_type].total - booked[1])

\* an availability that ends with "return max(0, total - booked) or None", so
\* that no room left is taken for a failed computation
available_rooms_falsy(bks, room_type, check_in, check_out) ==
    IF room_type \notin DOMAIN rooms
    THEN None
    ELSE LET booked == booked_count_for_range(bks, room_type, check_in, check_out)
         IN IF booked = None \/ rooms[room_type].total <= booked[1]
            THEN None
            ELSE Some(rooms[room_type].total - booked[1])

available_rooms_for_range(bks, room_type, check_in, check_out) ==
    IF room_type \notin DOMAIN rooms
    THEN None
    ELSE LET booked == booked_count_for_range(bks, room_type, check_in, check_out)
         IN IF booked = None
            THEN None
            ELSE Some(Max(0, rooms[room_type].total - booked[1]))

\* ---------- persistence ----------
\* The keys of a booking dict, in insertion order.
KeyOrder == <<"booking_id", "guest_name", "email", "phone", "room_type",
              "check_in", "check_out", "guests", "nights", "total_price",
              "status", "created_at", "cancelled_at">>

RECURSIVE DumpKeys(_, _)
DumpKeys(b, keys) ==
    IF keys = <<>> THEN <<>>
    ELSE IF Head(keys) \in DOMAIN b
    THEN <<<<Head(keys), b[Head(keys)]>>>> \o DumpKeys(b, Tail(keys))
    ELSE DumpKeys(b, Tail(keys))

\* json.dump writes each dict as its key/value pairs, in order
json_dump(bks) == [i \in 1..Len(bks) |-> DumpKeys(bks[i], KeyOrder)]

LoadObject(pairs) ==
    [k \in {pairs[j][1] : j \in 1..Len(pairs)} |->
        pairs[CHOOSE j \in 1..Len(pairs) : pairs[j][1] = k][2]]

json_load(data) == [i \in 1..Len(data) |-> LoadObject(data[i])]

\* a load that keeps whatever records can still be read from a broken file
load_bookings_lenient(st) == json_load(st.data)

\* the store file: absent, unparseable, or the JSON text of a list of dicts
load_bookings(st) == IF st.state = "json" THEN json_load(st.data) ELSE <<>>

save_bookings(bks) == [state |-> "json", data |-> json_dump(bks)]

\* ---------- CRUD ----------
NoRooms(room_type) == <<"No", room_type, "rooms available for those dates">>

\* a rejection that looks at the dates before the room type
RejectionDatesFirst(bks, room_type, check_in, check_out) ==
    LET nights == calculate_nights(check_in, check_out)
    IN IF nights = None
       THEN Some(<<"Invalid date format. Use YYYY-MM-DD">>)
       ELSE IF nights[1] <= 0
       THEN Some(<<"Check-out must be after check-in">>)
       ELSE IF room_type \notin DOMAIN rooms
       THEN Some(<<"Invalid room type">>)
       ELSE LET available ==
                   available_rooms_for_range(bks, room_type, check_in, check_out)
            IN IF available = None
               THEN Some(<<"Error calculating availability">>)
               ELSE IF available[1] <= 0
               THEN Some(NoRooms(room_type))
               ELSE None

\* a rejection that tests available < 0 where the code tests available <= 0
RejectionOffByOne(bks, room_type, check_in, check_out) ==
    IF room_type \notin DOMAIN rooms
    THEN Some(<<"Invalid room type">>)
    ELSE LET nights == calculate_nights(check_in, check_out)
         IN IF nights = None
            THEN Some(<<"Invalid date format. Use YYYY-MM-DD">>)
            ELSE IF nights[1] <= 0
            THEN Some(<<"Check-out must be after check-in">>)
            ELSE LET available ==
                        available_rooms_for_range(bks, room_type, check_in, check_out)
                 IN IF available = None
                    THEN Some(<<"Error calculating availability">>)
                    ELSE IF available[1] < 0
                    THEN Some(NoRooms(room_type))
                    ELSE None

\* the rejection reason of create_booking, None when every check passes
Rejection(bks, room_type, check_in, check_out) ==
    IF room_type \notin DOMAIN rooms
    THEN Some(<<"Invalid room type">>)
    ELSE LET nights == calculate_nights(check_in, check_out)
         IN IF nights = None
            THEN Some(<<"Invalid date format. Use YYYY-MM-DD">>)
            ELSE IF nights[1] <= 0
            THEN Some(<<"Check-out must be after check-in">>)
            ELSE LET available ==
                        available_rooms_for_range(bks, room_type, check_in, check_out)
                 IN IF available = None
                    THEN Some(<<"Error calculating availability">>)
                    ELSE IF available[1] <= 0
                    THEN Some(NoRooms(room_type))
                    ELSE None

\* a booking whose nights count the check-out day as well
NewBookingInclusive(bks, g, room_type, check_in, check_out, t) ==
    LET nights == calculate_nights(check_in, check_out)[1] + 1
    IN [booking_id  |-> generate_booking_id(bks),
        guest_name  |-> g.guest_name,
        email       |-> g.email,
        phone       |-> g.phone,
        room_type   |-> room_type,
        check_in    |-> check_in,
        check_out   |-> check_out,
        guests      |-> g.guests,
        nights      |-> nights,
        total_price |-> rooms[room_type].price * nights,
        status      |-> "confirmed",
        created_at  |-> t]

\* a booking whose id is taken from the clock reading, not from the ledger
NewBookingClockId(bks, g, room_type, check_in, check_out, t) ==
    LET nights == calculate_nights(check_in, check_out)[1]
    IN [booking_id  |-> FormatId(t + 1),
        guest_name  |-> g.guest_name,
        email       |-> g.email,
        phone       |-> g.phone,
        room_type   |-> room_type,
        check_in    |-> check_in,
        check_out   |-> check_out,
        guests      |-> g.guests,
        nights      |-> nights,
        total_price |-> rooms[room_type].price * nights,
        status      |-> "confirmed",
        created_at  |-> t]

NewBooking(bks, g, room_type, check_in, check_out, t) ==
    LET nights == calculate_nights(check_in, check_out)[1]
    IN [booking_id  |-> generate_booking_id(bks),
        guest_name  |-> g.guest_name,
        email       |-> g.email,
        phone       |-> g.phone,
        room_type   |-> room_type,
        check_in    |-> check_in,
        check_out   |-> check_out,
        guests      |-> g.guests,
        nights      |-> nights,
        total_price |-> rooms[room_type].price * nights,
        status      |-> "confirmed",
        created_at  |-> t]

\* a create that appends and saves the record before it looks at availability
create_booking_append_first(bks, g, room_type, check_in, check_out, t) ==
    LET why == Rejection(bks, room_type, check_in, check_out)
    IN IF why # None /\ why # Some(NoRooms(room_type))
       THEN [bookings |-> bks, saved |-> FALSE,
             ret |-> [booking |-> None, message |-> why[1]]]
       ELSE LET booking == NewBooking(bks, g, room_type, check_in, check_out, t)
            IN [bookings |-> Append(bks, booking), saved |-> TRUE,
                ret |-> IF why # None
                        THEN [booking |-> None, message |-> why[1]]
                        ELSE [booking |-> Some(booking),
                              message |-> <<"Booking created successfully">>]]

\* create_booking on ledger bks at clock reading t: the ledger afterwards,
\* whether it was saved, and the pair returned
create_booking(bks, g, room_type, check_in, check_out, t) ==
    LET why == Rejection(bks, room_type, check_in, check_out)
    IN IF why # None
       THEN [bookings |-> bks, saved |-> FALSE,
             ret |-> [booking |-> None, message |-> why[1]]]
       ELSE LET booking == NewBooking(bks, g, room_type, check_in, check_out, t)
            IN [bookings |-> Append(bks, booking), saved |-> TRUE,
                ret |-> [booking |-> Some(booking),
                         message |-> <<"Booking created successfully">>]]

\* a scan that steps over the record at i and starts with the one after it
FindFromSkipFirst(bks, booking_id, i) ==
    LET hits == {j \in (i + 1)..Len(bks) : bks[j].booking_id = booking_id}
    IN IF hits = {} THEN 0 ELSE CHOOSE j \in hits : \A k \in hits : j <= k

\* index of the first record carrying booking_id, 0 when there is none
RECURSIVE FindFrom(_, _, _)
FindFrom(bks, booking_id, i) ==
    IF i > Len(bks) THEN 0
    ELSE IF bks[i].booking_id = booking_id THEN i
    ELSE FindFrom(bks, booking_id, i + 1)

\* get_booking on ledger bks: the first record carrying booking_id, or None
get_booking(bks, booking_id) ==
    LET i == FindFrom(bks, booking_id, 1)
    IN [bookings |-> bks, saved |-> FALSE,
        ret |-> [booking |-> IF i = 0 THEN None ELSE Some(bks[i]),
                 message |-> <<>>]]

\* a cancellation that stamps cancelled_at and leaves the status as it was
MarkCancelledStampOnly(b, t) ==
    [k \in DOMAIN b \cup {"cancelled_at"} |->
        IF k = "cancelled_at" THEN t ELSE b[k]]

\* booking['status'] = 'cancelled'; booking['cancelled_at'] = t
MarkCancelled(b, t) ==
    [k \in DOMAIN b \cup {"cancelled_at"} |->
        IF k = "status" THEN "cancelled"
        ELSE IF k = "cancelled_at" THEN t
        ELSE b[k]]

\* a cancel that marks the record and does not call save_bookings
cancel_booking_unsaved(bks, booking_id, t) ==
    LET i == FindFrom(bks, booking_id, 1)
    IN IF i = 0
       THEN [bookings |-> bks, saved |-> FALSE,
             ret |-> [booking |-> None, message |-> <<>>]]
       ELSE IF bks[i].status = "cancelled"
       THEN [bookings |-> bks, saved |-> FALSE,
             ret |-> [booking |-> Some(bks[i]), message |-> <<>>]]
       ELSE LET after == [bks EXCEPT ![i] = MarkCancelled(bks[i], t)]
            IN [bookings |-> after, saved |-> FALSE,
                ret |-> [booking |-> Some(after[i]), message |-> <<>>]]

\* a cancel without the early return for a record that is already cancelled
cancel_booking_restamp(bks, booking_id, t) ==
    LET i == FindFrom(bks, booking_id, 1)
    IN IF i = 0
       THEN [bookings |-> bks, saved |-> FALSE,
             ret |-> [booking |-> None, message |-> <<>>]]
       ELSE LET after == [bks EXCEPT ![i] = MarkCancelled(bks[i], t)]
            IN [bookings |-> after, saved |-> TRUE,
                ret |-> [booking |-> Some(after[i]), message |-> <<>>]]

\* a cancel that turns a cancelled record back to confirmed
cancel_booking_toggle(bks, booking_id, t) ==
    LET i == FindFrom(bks, booking_id, 1)
    IN IF i = 0
       THEN [bookings |-> bks, saved |-> FALSE,
             ret |-> [booking |-> None, message |-> <<>>]]
       ELSE LET after ==
                    [bks EXCEPT ![i] =
                        IF bks[i].status = "cancelled"
                        THEN [bks[i] EXCEPT !.status = "confirmed"]
                        ELSE MarkCancelled(bks[i], t)]
            IN [bookings |-> after, saved |-> TRUE,
                ret |-> [booking |-> Some(after[i]), message |-> <<>>]]

\* a cancel that removes the record from the ledger
cancel_booking_delete(bks, booking_id, t) ==
    LET i == FindFrom(bks, booking_id, 1)
    IN IF i = 0
       THEN [bookings |-> bks, saved |-> FALSE,
             ret |-> [booking |-> None, message |-> <<>>]]
       ELSE IF bks[i].status = "cancelled"
       THEN [bookings |-> bks, saved |-> FALSE,
             ret |-> [booking |-> Some(bks[i]), message |-> <<>>]]
       ELSE [bookings |-> SubSeq(bks, 1, i - 1) \o SubSeq(bks, i + 1, Len(bks)),
             saved |-> TRUE,
             ret |-> [booking |-> Some(MarkCancelled(bks[i], t)), message |-> <<>>]]

\* cancel_booking on ledger bks at clock reading t
cancel_booking(bks, booking_id, t) ==
    LET i == FindFrom(bks, booking_id, 1)
    IN IF i = 0
       THEN [bookings |-> bks, saved |-> FALSE,
             ret |-> [booking |-> None, message |-> <<>>]]
       ELSE IF bks[i].status = "cancelled"
       THEN [bookings |-> bks, saved |-> FALSE,
             ret |-> [booking |-> Some(bks[i]), message |-> <<>>]]
       ELSE LET after == [bks EXCEPT ![i] = MarkCancelled(bks[i], t)]
            IN [bookings |-> after, saved |-> TRUE,
                ret |-> [booking |-> Some(after[i]), message |-> <<>>]]

\* ---------- the system ----------
Guest == [guest_name |-> "Asha", email |-> "asha@example.com",
          phone |-> "555-0100", guests |-> 2]

\* The create_booking calls of an earlier run of the program, which left the
\* store that this run loads: four suites over 02-01..02-06 and one over
\* 02-01..02-05.
EarlierRequests ==
    <<[room_type |-> "suite", check_in |-> <<2024, 2, 1>>, check_out |-> <<2024, 2, 6>>],
      [room_type |-> "suite", check_in |-> <<2024, 2, 1>>, check_out |-> <<2024, 2, 6>>],
      [room_type |-> "suite", check_in |-> <<2024, 2, 1>>, check_out |-> <<2024, 2, 5>>],
      [room_type |-> "suite", check_in |-> <<2024, 2, 1>>, check_out |-> <<2024, 2, 6>>],
      [room_type |-> "suite", check_in |-> <<2024, 2, 1>>, check_out |-> <<2024, 2, 6>>]>>

\* the ledger after the calls reqs, made one at a time from ledger bks at clock t
RECURSIVE Replay(_, _, _)
Replay(reqs, bks, t) ==
    IF reqs = <<>> THEN bks
    ELSE Replay(Tail(reqs),
                create_booking(bks, Guest, Head(reqs).room_type,
                               Head(reqs).check_in, Head(reqs).check_out, t).bookings,
                t + 1)

EarlierStore == save_bookings(Replay(EarlierRequests, <<>>, 0))

\* the file when a write of the ledger bks stopped part-way: open(.., 'w') has
\* emptied it and the text of the first k records has been written, without
\* the closing bracket
TornStores(bks) ==
    {[state |-> "malformed", data |-> SubSeq(json_dump(bks), 1, k)] : k \in 0..Len(bks)}

\* the file found after a crash in save_bookings: untouched (the crash came
\* before open), torn, or complete (the crash came after the last write)
CrashOutcomes(old, bks) == {old} \cup TornStores(bks) \cup {save_bookings(bks)}

StoreInputs == {[state |-> "absent", data |-> <<>>],
                [state |-> "malformed", data |-> SubSeq(EarlierStore.data, 1, 2)],
                EarlierStore}

\* the clock reading at construction, after every stamp of the earlier run
StartClock == Len(EarlierRequests)

\* ids to look up: two of the earlier run, the first of this run, and BK0000,
\* which is never assigned
BookingIdInputs == {FormatId(n) : n \in {0, 1, 3, Len(EarlierRequests) + 1}}

NoCall == [op |-> "__init__", room_type |-> "", check_in |-> <<>>,
           check_out |-> <<>>, booking_id |-> <<>>]

\* the threads that may be inside create_booking on the one system object
Threads == {1, 2}

\* a thread that is not inside create_booking
NoFrame == [pc |-> "idle", g |-> Guest, room_type |-> "", check_in |-> <<>>,
            check_out |-> <<>>, available |-> 0, booking |-> None, read |-> 0]

Init ==
    /\ store \in StoreInputs
    /\ frames = [t \in Threads |-> NoFrame]
    /\ bookings = load_bookings(store)
    /\ now = StartClock
    /\ call = NoCall
    /\ ret = [booking |-> None, message |-> <<>>]

\* one call: the ledger is replaced, saved when the call saved it, and the
\* clock moves on when the call read it
Perform(c, r) ==
    /\ r.saved => now < StartClock + MaxClockReads
    /\ bookings' = r.bookings
    /\ store' = IF r.saved THEN save_bookings(r.bookings) ELSE store
    /\ now' = IF r.saved THEN now + 1 ELSE now
    /\ call' = c
    /\ ret' = r.ret
    /\ UNCHANGED frames

CreateBooking ==
    \E g \in GuestInputs, q \in CreateInputs :
        LET r == create_booking(bookings, g, q[1], q[2], q[3], now)
        IN Perform([op |-> "create_booking", room_type |-> q[1],
                    check_in |-> q[2], check_out |-> q[3],
                    booking_id |-> <<>>], r)

CancelBooking ==
    \E booking_id \in BookingIdInputs :
        LET r == cancel_booking(bookings, booking_id, now)
        IN Perform([op |-> "cancel_booking", room_type |-> "", check_in |-> <<>>,
                    check_out |-> <<>>, booking_id |-> booking_id], r)

GetBooking ==
    \E booking_id \in BookingIdInputs :
        LET r == get_booking(bookings, booking_id)
        IN Perform([op |-> "get_booking", room_type |-> "", check_in |-> <<>>,
                    check_out |-> <<>>, booking_id |-> booking_id], r)

NoReturn == [booking |-> None, message |-> <<>>]

\* the process ends and is started again: __init__ loads the store
Restart ==
    /\ bookings' = load_bookings(store)
    /\ call' = NoCall
    /\ ret' = NoReturn
    /\ UNCHANGED <<store, now, frames>>

\* the ledger that a create_booking or cancel_booking call is about to save
Saving(bks, t) ==
    {create_booking(bks, g, q[1], q[2], q[3], t).bookings :
        g \in GuestInputs,
        q \in {x \in CreateInputs : create_booking(bks, Guest, x[1], x[2], x[3], t).saved}}
    \cup {cancel_booking(bks, id, t).bookings :
            id \in {x \in BookingIdInputs : cancel_booking(bks, x, t).saved}}

\* the process dies inside the save_bookings of a create_booking or
\* cancel_booking call, and is started again
CrashInSave ==
    /\ now < StartClock + MaxClockReads
    /\ \E after \in Saving(bookings, now) :
           store' \in CrashOutcomes(store, after)
    /\ bookings' = load_bookings(store')
    /\ now' = now + 1
    /\ call' = NoCall
    /\ ret' = NoReturn
    /\ UNCHANGED frames

Next == CreateBooking \/ CancelBooking \/ GetBooking \/ Restart \/ CrashInSave

Spec == Init /\ [][Next]_vars

\* ---------- create_booking called from several threads ----------
\* Each thread runs create_booking on the same object.  A thread is preempted
\* only between the steps below; frames[t] holds the locals of its call and
\* the place it has reached, and once it has returned, the booking it
\* returned: None with a rejection, the new record with a success.

\* lines 92-105: the checks, the availability among them, on the ledger as it
\* is now; a rejected call returns at once
Check(t) ==
    /\ frames[t].pc \in {"idle", "returned"}
    /\ \E g \in GuestInputs, q \in CreateInputs :
        IF Rejection(bookings, q[1], q[2], q[3]) # None
        THEN frames' = [frames EXCEPT ![t] = [NoFrame EXCEPT !.pc = "returned"]]
        ELSE frames' = [frames EXCEPT ![t] =
                 [pc |-> "checked", g |-> g, room_type |-> q[1],
                  check_in |-> q[2], check_out |-> q[3],
                  available |->
                      available_rooms_for_range(bookings, q[1], q[2], q[3])[1],
                  booking |-> None, read |-> 0]]
    /\ UNCHANGED <<bookings, store, now, call, ret>>

\* lines 107-122: the dict is built; generate_booking_id reads the ledger as it
\* is now (read is its length) and created_at reads the clock
Build(t) ==
    /\ frames[t].pc = "checked"
    /\ now < StartClock + MaxClockReads
    /\ frames' = [frames EXCEPT ![t].pc = "built",
                                ![t].read = Len(bookings),
                                ![t].booking =
                                    Some(NewBooking(bookings, frames[t].g,
                                                    frames[t].room_type,
                                                    frames[t].check_in,
                                                    frames[t].check_out, now))]
    /\ now' = now + 1
    /\ UNCHANGED <<bookings, store, call, ret>>

\* line 124: self.bookings.append(booking)
AppendBooking(t) ==
    /\ frames[t].pc = "built"
    /\ bookings' = Append(bookings, frames[t].booking[1])
    /\ frames' = [frames EXCEPT ![t].pc = "appended"]
    /\ UNCHANGED <<store, now, call, ret>>

\* lines 125-126: the ledger as it is now is saved and the call returns
SaveAndReturn(t) ==
    /\ frames[t].pc = "appended"
    /\ store' = save_bookings(bookings)
    /\ frames' = [frames EXCEPT ![t].pc = "returned"]
    /\ UNCHANGED <<bookings, now, call, ret>>

NextConcurrent ==
    \E t \in Threads : Check(t) \/ Build(t) \/ AppendBooking(t) \/ SaveAndReturn(t)

SpecConcurrent == Init /\ [][NextConcurrent]_vars

\* ---------- vocabulary of the properties ----------
ValidDates == {d \in DateInputs : parse_date(d) # None}

Ord(d) == parse_date(d)[1]

\* every calendar day between the earliest and the latest date a booking can name
CalendarDays == UNION {Ord(lo)..Ord(hi) : lo \in ValidDates, hi \in ValidDates}

Index(bks) == 1..Len(bks)

\* the confirmed records of room_type whose range meets the days from..to-1
Overlapping(bks, room_type, from, to) ==
    {i \in Index(bks) : /\ bks[i].room_type = room_type
                        /\ bks[i].status = "confirmed"
                        /\ Ord(bks[i].check_in) < to
                        /\ from < Ord(bks[i].check_out)}

\* the confirmed records of room_type whose range contains the days from..to-1
Covering(bks, room_type, from, to) ==
    {i \in Index(bks) : /\ bks[i].room_type = room_type
                        /\ bks[i].status = "confirmed"
                        /\ Ord(bks[i].check_in) <= from
                        /\ to <= Ord(bks[i].check_out)}

IsCreate(c) == c.op = "create_booking"

IsCancel(c) == c.op = "cancel_booking"

\* the call asks for a known room type and a range of at least one night
ValidRequest(c) ==
    /\ IsCreate(c)
    /\ c.room_type \in DOMAIN rooms
    /\ c.check_in \in ValidDates
    /\ c.check_out \in ValidDates
    /\ Ord(c.check_in) < Ord(c.check_out)

Accepted(r) == r.booking # None

\* C1: no overselling: for every room type and every calendar day, the
\* confirmed bookings of that type whose range [check_in, check_out) contains
\* the day are at most the type's total units.
NoOverselling ==
    \A room_type \in DOMAIN rooms, day \in CalendarDays :
        Cardinality(Covering(bookings, room_type, day, day + 1))
            <= rooms[room_type].total

\* C1 witness: an accepted create has just filled the last suite of a day.
NoOversellingWitness ==
    /\ IsCreate(call) /\ Accepted(ret)
    /\ ret.booking[1] = bookings[Len(bookings)]
    /\ \E day \in CalendarDays :
        /\ Ord(call.check_in) <= day /\ day < Ord(call.check_out)
        /\ Cardinality(Covering(bookings, call.room_type, day, day + 1))
               = rooms[call.room_type].total

\* C3: booked_count_for_range with two valid dates is exactly the number of
\* records of that room type, with status confirmed, whose interval satisfies
\* check_in < checkOut and checkIn < check_out; cancelled records and records
\* of other room types do not contribute.
BookedCountExact ==
    \A room_type \in RoomTypeInputs, check_in \in ValidDates, check_out \in ValidDates :
        booked_count_for_range(bookings, room_type, check_in, check_out)
            = Some(Cardinality(Overlapping(bookings, room_type,
                                           Ord(check_in), Ord(check_out))))

\* C3 witness: the ledger holds a cancelled suite and a confirmed double that
\* both meet a range for which confirmed suites are counted.
BookedCountExactWitness ==
    \E check_in \in ValidDates, check_out \in ValidDates :
        /\ booked_count_for_range(bookings, "suite", check_in, check_out)[1] > 0
        /\ Overlapping(bookings, "double", Ord(check_in), Ord(check_out)) # {}
        /\ \E i \in Index(bookings) :
            /\ bookings[i].room_type = "suite"
            /\ bookings[i].status = "cancelled"
            /\ Ord(bookings[i].check_in) < Ord(check_out)
            /\ Ord(check_in) < Ord(bookings[i].check_out)

\* C4: in every reachable ledger state, available_rooms_for_range for a known
\* room type and two valid dates is an integer from 0 to the type's total.
AvailableInRange ==
    \A room_type \in DOMAIN rooms, check_in \in ValidDates, check_out \in ValidDates :
        LET available ==
                available_rooms_for_range(bookings, room_type, check_in, check_out)
        IN /\ available # None
           /\ 0 <= available[1]
           /\ available[1] <= rooms[room_type].total

\* C4 witness: more confirmed suites meet a range than there are suites (no
\* day is oversold), so the difference is clamped, while every double is free.
AvailableInRangeWitness ==
    /\ call # NoCall
    /\ \E check_in \in ValidDates, check_out \in ValidDates :
        /\ Cardinality(Overlapping(bookings, "suite", Ord(check_in), Ord(check_out)))
               > rooms["suite"].total
        /\ available_rooms_for_range(bookings, "suite", check_in, check_out) = Some(0)
        /\ available_rooms_for_range(bookings, "double", check_in, check_out)
               = Some(rooms["double"].total)

FullyCovered(bks, room_type, from, to) ==
    Cardinality(Covering(bks, room_type, from, to)) >= rooms[room_type].total

\* the ledger before the record that was appended last
BeforeLast(bks) == SubSeq(bks, 1, Len(bks) - 1)

\* C2 as stated: when a room type has total_units confirmed bookings all
\* covering [a, b), a create_booking for a valid range that overlaps [a, b) is
\* rejected with the no-rooms-available reason, and one whose check_in equals b
\* (or whose check_out equals a) is accepted.
HalfOpenAsStated ==
    [][ValidRequest(call') =>
        \A a \in CalendarDays, b \in CalendarDays :
            (a < b /\ FullyCovered(bookings, call'.room_type, a, b)) =>
                /\ (Ord(call'.check_in) < b /\ a < Ord(call'.check_out)) =>
                      (~Accepted(ret') /\ ret'.message = NoRooms(call'.room_type))
                /\ (Ord(call'.check_in) = b \/ Ord(call'.check_out) = a) =>
                      Accepted(ret')]_vars

\* C2, amended: when a room type has total_units confirmed bookings all
\* covering [a, b), a create_booking for a valid range that overlaps [a, b) is
\* rejected with the no-rooms-available reason, and one whose check_in equals b
\* (or whose check_out equals a) is accepted exactly when fewer than
\* total_units confirmed bookings of that type overlap its own range, where a
\* booking that checks out on the request's check-in day, or checks in on its
\* check-out day, does not overlap it.
HalfOpen ==
    [][ValidRequest(call') =>
        \A a \in CalendarDays, b \in CalendarDays :
            (a < b /\ FullyCovered(bookings, call'.room_type, a, b)) =>
                /\ (Ord(call'.check_in) < b /\ a < Ord(call'.check_out)) =>
                      (~Accepted(ret') /\ ret'.message = NoRooms(call'.room_type))
                /\ (Ord(call'.check_in) = b \/ Ord(call'.check_out) = a) =>
                      (Accepted(ret') <=>
                          Cardinality(Overlapping(bookings, call'.room_type,
                                                  Ord(call'.check_in),
                                                  Ord(call'.check_out)))
                              < rooms[call'.room_type].total)]_vars

\* C2 witness: a create was accepted whose check_in is the day b of a range
\* [a, b) that total_units confirmed bookings of its type covered.
HalfOpenWitness ==
    /\ ValidRequest(call) /\ Accepted(ret)
    /\ ret.booking[1] = bookings[Len(bookings)]
    /\ \E a \in CalendarDays :
        /\ a < Ord(call.check_in)
        /\ FullyCovered(BeforeLast(bookings), call.room_type, a, Ord(call.check_in))

\* C5: every record enters the ledger confirmed, the only status change an
\* operation makes is confirmed -> cancelled, and a cancelled record stays
\* cancelled.
StatusLifecycle ==
    [][\A i \in Index(bookings') :
          IF i \in Index(bookings)
          THEN \/ bookings'[i].status = bookings[i].status
               \/ bookings[i].status = "confirmed" /\ bookings'[i].status = "cancelled"
          ELSE bookings'[i].status = "confirmed"]_vars

\* C5 witness: a record has just entered the ledger, confirmed, after another
\* record was cancelled.
StatusLifecycleWitness ==
    /\ IsCreate(call) /\ Accepted(ret)
    /\ bookings[Len(bookings)].status = "confirmed"
    /\ \E i \in Index(bookings) :
        /\ bookings[i].status = "cancelled"
        /\ bookings[i].cancelled_at < bookings[Len(bookings)].created_at

\* C6: cancel_booking(id) on a record that is already cancelled returns that
\* record with every field, cancelled_at included, as the first cancellation
\* left it, and changes neither the ledger nor the store.
CancelIdempotent ==
    [][IsCancel(call') =>
        \A i \in Index(bookings) :
            (bookings[i].booking_id = call'.booking_id
                /\ bookings[i].status = "cancelled") =>
                /\ ret'.booking = Some(bookings[i])
                /\ bookings' = bookings
                /\ store' = store]_vars

\* C6 witness: the last call cancelled a record again that was cancelled before
\* the clock was last read, and got it back with the first cancelled_at.
CancelIdempotentWitness ==
    /\ IsCancel(call) /\ Accepted(ret)
    /\ ret.booking[1].status = "cancelled"
    /\ ret.booking[1].cancelled_at < now - 1
    /\ \E i \in Index(bookings) : bookings[i] = ret.booking[1]

Suffix(b) == ParseSuffix(b.booking_id)[1]

\* C7: no two records share a booking_id, generate_booking_id returns an id
\* that no record carries (cancelled ones included), and the numeric suffixes
\* of the ids never decrease along the ledger, which is in order of creation.
IdsUnique ==
    /\ \A i \in Index(bookings), j \in Index(bookings) :
        /\ i # j => bookings[i].booking_id # bookings[j].booking_id
        /\ i < j => Suffix(bookings[i]) <= Suffix(bookings[j])
    /\ \A i \in Index(bookings) :
        bookings[i].booking_id # generate_booking_id(bookings)

\* C7 witness: a record was created after another one was cancelled.
IdsUniqueWitness ==
    \E i \in Index(bookings), j \in Index(bookings) :
        /\ i < j
        /\ bookings[i].status = "cancelled"
        /\ bookings[i].cancelled_at < bookings[j].created_at
        /\ bookings[j].booking_id = FormatId(Len(bookings))

Unparseable(c) == parse_date(c.check_in) = None \/ parse_date(c.check_out) = None

\* C8: create_booking reports the first failed check in the order unknown room
\* type, unparseable date, nights <= 0, no availability.
ValidationOrder ==
    [][IsCreate(call') =>
        /\ call'.room_type \notin DOMAIN rooms =>
              ret'.message = <<"Invalid room type">>
        /\ (call'.room_type \in DOMAIN rooms /\ Unparseable(call')) =>
              ret'.message = <<"Invalid date format. Use YYYY-MM-DD">>
        /\ (call'.room_type \in DOMAIN rooms /\ ~Unparseable(call')
                /\ Ord(call'.check_out) <= Ord(call'.check_in)) =>
              ret'.message = <<"Check-out must be after check-in">>
        /\ (ValidRequest(call')
                /\ Cardinality(Overlapping(bookings, call'.room_type,
                                           Ord(call'.check_in), Ord(call'.check_out)))
                       >= rooms[call'.room_type].total) =>
              ret'.message = NoRooms(call'.room_type)]_vars

\* C8 witness: a request for a known type with check_out <= check_in, over
\* days on which that type is fully booked, was rejected for its dates.
ValidationOrderWitness ==
    /\ IsCreate(call)
    /\ call.room_type \in DOMAIN rooms
    /\ ~Unparseable(call)
    /\ Ord(call.check_out) <= Ord(call.check_in)
    /\ available_rooms_for_range(bookings, call.room_type,
                                 call.check_in, call.check_out) = Some(0)
    /\ ret = [booking |-> None, message |-> <<"Check-out must be after check-in">>]

\* the request fails one of the four checks of create_booking
FailsACheck(bks, c) ==
    \/ c.room_type \notin DOMAIN rooms
    \/ Unparseable(c)
    \/ Ord(c.check_out) <= Ord(c.check_in)
    \/ Cardinality(Overlapping(bks, c.room_type, Ord(c.check_in), Ord(c.check_out)))
           >= rooms[c.room_type].total

Reasons ==
    {<<"Invalid room type">>, <<"Invalid date format. Use YYYY-MM-DD">>,
     <<"Check-out must be after check-in">>} \cup {NoRooms(t) : t \in DOMAIN rooms}

\* C9: a rejected create_booking returns no record and a reason, and leaves
\* the ledger, the store and the next booking id as they were.
RejectedCreateNoEffect ==
    [][(IsCreate(call') /\ FailsACheck(bookings, call')) =>
        /\ ret'.booking = None
        /\ ret'.message \in Reasons
        /\ bookings' = bookings
        /\ store' = store
        /\ generate_booking_id(bookings') = generate_booking_id(bookings)]_vars

\* C9 witness: a create was rejected for lack of rooms on a ledger that this
\* run has saved.
RejectedCreateNoEffectWitness ==
    /\ IsCreate(call)
    /\ ret = [booking |-> None, message |-> NoRooms(call.room_type)]
    /\ now > StartClock
    /\ store = save_bookings(bookings)

IdsOf(bks) == [i \in Index(bks) |-> bks[i].booking_id]

\* C10: the ledger is append-only: the booking_ids before an operation are a
\* prefix of those after it, an accepted create_booking appends exactly one
\* record, and cancel_booking changes only the status and cancelled_at of the
\* record it targets.
AppendOnly ==
    [][/\ call' # NoCall =>
             /\ Len(bookings) <= Len(bookings')
             /\ IdsOf(bookings) = SubSeq(IdsOf(bookings'), 1, Len(bookings))
       /\ (IsCreate(call') /\ Accepted(ret')) =>
             bookings' = Append(bookings, ret'.booking[1])
       /\ IsCancel(call') =>
             /\ Len(bookings') = Len(bookings)
             /\ \A i \in Index(bookings) :
                 /\ bookings[i].booking_id # call'.booking_id =>
                       bookings'[i] = bookings[i]
                 /\ \A k \in DOMAIN bookings[i] \ {"status", "cancelled_at"} :
                       k \in DOMAIN bookings'[i] /\ bookings'[i][k] = bookings[i][k]]_vars

\* C10 witness: a record in the middle of the ledger has just been cancelled,
\* after this run appended a record.
AppendOnlyWitness ==
    /\ IsCancel(call) /\ Accepted(ret)
    /\ ret.booking[1].cancelled_at = now - 1
    /\ \E i \in Index(bookings) :
        /\ i < Len(bookings)
        /\ bookings[i] = ret.booking[1]
        /\ bookings[Len(bookings)].created_at >= StartClock

DerivedKeys == {"room_type", "check_in", "check_out", "nights", "total_price"}

DerivedFieldsOk(b) ==
    /\ b.room_type \in DOMAIN rooms
    /\ parse_date(b.check_in) # None /\ parse_date(b.check_out) # None
    /\ Ord(b.check_in) < Ord(b.check_out)
    /\ b.nights = Ord(b.check_out) - Ord(b.check_in)
    /\ b.total_price = b.nights * rooms[b.room_type].price

\* C11: every record has a known room_type, check_out after check_in, nights
\* equal to the day difference and total_price equal to nights times the
\* type's price per night; an operation on the ledger leaves these fields of
\* every record as they were, also when it cancels the record.
DerivedFields ==
    /\ [](\A i \in Index(bookings) : DerivedFieldsOk(bookings[i]))
    /\ [][call' # NoCall =>
            \A i \in Index(bookings) :
                /\ i \in Index(bookings')
                /\ \A k \in DerivedKeys : bookings'[i][k] = bookings[i][k]]_vars

\* C11 witness: a four-night suite made in this run has been cancelled and
\* still carries four nights and four times the suite price.
DerivedFieldsWitness ==
    \E i \in Index(bookings) :
        /\ bookings[i].created_at >= StartClock
        /\ bookings[i].status = "cancelled"
        /\ bookings[i].nights = 4
        /\ bookings[i].total_price = 12000
        /\ Ord(bookings[i].check_out) - Ord(bookings[i].check_in) = 4

\* the confirmed record that the cancel call c targets, 0 when there is none
Target(bks, c) ==
    IF \E i \in Index(bks) : bks[i].booking_id = c.booking_id /\ bks[i].status = "confirmed"
    THEN CHOOSE i \in Index(bks) :
            bks[i].booking_id = c.booking_id /\ bks[i].status = "confirmed"
    ELSE 0

\* the range from..to meets the range of record b
Meets(b, from, to) == Ord(b.check_in) < to /\ from < Ord(b.check_out)

\* C12: cancelling a confirmed booking of type T with range R lowers
\* booked_count_for_range(T, Q) by exactly one for every query range Q that
\* overlaps R, leaves it unchanged for every other Q and every other type, and
\* a create that was rejected for lack of rooms only because of that booking
\* is accepted after the cancel.
CancelReleases ==
    [][(IsCancel(call') /\ Target(bookings, call') # 0) =>
        LET b == bookings[Target(bookings, call')]
        IN /\ \A room_type \in RoomTypeInputs, check_in \in ValidDates,
                 check_out \in ValidDates :
                  booked_count_for_range(bookings', room_type, check_in, check_out)[1]
                      = booked_count_for_range(bookings, room_type, check_in, check_out)[1]
                        - (IF room_type = b.room_type
                              /\ Meets(b, Ord(check_in), Ord(check_out))
                           THEN 1 ELSE 0)
           /\ \A q \in CreateInputs :
                  (/\ q[1] = b.room_type
                   /\ q[2] \in ValidDates /\ q[3] \in ValidDates
                   /\ Ord(q[2]) < Ord(q[3])
                   /\ Meets(b, Ord(q[2]), Ord(q[3]))
                   /\ Cardinality(Overlapping(bookings, q[1], Ord(q[2]), Ord(q[3])))
                          = rooms[q[1]].total
                   /\ ~Accepted(create_booking(bookings, Guest, q[1], q[2], q[3], now).ret))
                  => Accepted(create_booking(bookings', Guest, q[1], q[2], q[3], now').ret)]_vars

\* C12 witness: a create was accepted that fills its range, right after the
\* cancellation of a booking of its type that overlapped that range.
CancelReleasesWitness ==
    /\ ValidRequest(call) /\ Accepted(ret)
    /\ ret.booking[1] = bookings[Len(bookings)]
    /\ Cardinality(Overlapping(bookings, call.room_type,
                               Ord(call.check_in), Ord(call.check_out)))
           = rooms[call.room_type].total
    /\ \E i \in Index(bookings) :
        /\ bookings[i].status = "cancelled"
        /\ bookings[i].room_type = call.room_type
        /\ bookings[i].cancelled_at = ret.booking[1].created_at - 1
        /\ Meets(bookings[i], Ord(call.check_in), Ord(call.check_out))

\* C13: after every accepted create_booking and every cancel_booking that
\* changed the ledger, the store is a complete JSON text, and loading it (a
\* restart) gives the in-memory ledger: the same records, with the same
\* fields, in the same order.
PersistOnMutation ==
    [][((IsCreate(call') /\ Accepted(ret')) \/ (IsCancel(call') /\ bookings' # bookings)) =>
        /\ store'.state = "json"
        /\ Len(store'.data) = Len(bookings')
        /\ load_bookings(store') = bookings']_vars

\* C13 witness: a cancel has just changed a ledger of several records, and
\* the store loads to that ledger, cancelled_at included.
PersistOnMutationWitness ==
    /\ IsCancel(call) /\ Accepted(ret)
    /\ ret.booking[1].cancelled_at = now - 1
    /\ Len(bookings) > 1
    /\ "cancelled_at" \in DOMAIN load_bookings(store)[FindFrom(bookings, call.booking_id, 1)]
    /\ load_bookings(store) = bookings

\* "BK" followed by the four decimal digits of k, for k below 10000
IdText(k) ==
    <<"B", "K", DigitChars[(k \div 1000) + 1], DigitChars[((k \div 100) % 10) + 1],
      DigitChars[((k \div 10) % 10) + 1], DigitChars[(k % 10) + 1]>>

\* C14: on a ledger that grew from the empty one, the k-th accepted
\* create_booking receives "BK" followed by k zero-padded to four digits, with
\* status confirmed; rejected creates and cancellations neither consume nor
\* skip a number.
SequentialIds ==
    /\ [](\A k \in Index(bookings) : bookings[k].booking_id = IdText(k))
    /\ [][/\ (IsCreate(call') /\ Accepted(ret')) =>
              /\ ret'.booking[1].booking_id = IdText(Len(bookings) + 1)
              /\ ret'.booking[1].status = "confirmed"
          /\ ((IsCreate(call') /\ ~Accepted(ret')) \/ IsCancel(call')) =>
              generate_booking_id(bookings') = generate_booking_id(bookings)]_vars

\* C14 witness: a create was accepted after a cancellation made in this run,
\* and its id is "BK" and the padded length of the ledger.
SequentialIdsWitness ==
    /\ IsCreate(call) /\ Accepted(ret)
    /\ ret.booking[1].booking_id = IdText(Len(bookings))
    /\ ret.booking[1].status = "confirmed"
    /\ \E i \in Index(bookings) :
        /\ bookings[i].status = "cancelled"
        /\ bookings[i].cancelled_at >= StartClock
        /\ bookings[i].cancelled_at < ret.booking[1].created_at

\* C15: with the store absent or unparseable the ledger after startup is
\* empty; the first accepted create_booking after such a load returns BK0001,
\* and the save that follows leaves a store holding exactly that one record.
LoadRecovery ==
    /\ [](store.state # "json" => bookings = <<>>)
    /\ [][(store.state # "json" /\ IsCreate(call') /\ Accepted(ret')) =>
              /\ ret'.booking[1].booking_id = <<"B", "K", "0", "0", "0", "1">>
              /\ bookings' = <<ret'.booking[1]>>
              /\ store'.state = "json"
              /\ Len(store'.data) = 1
              /\ load_bookings(store') = <<ret'.booking[1]>>]_vars

\* C15 witness: a crash left no readable store, the ledger started empty, and
\* the create accepted next is BK0001, alone in the ledger and in the store.
LoadRecoveryWitness ==
    /\ IsCreate(call) /\ Accepted(ret)
    /\ ret.booking[1].booking_id = <<"B", "K", "0", "0", "0", "1">>
    /\ ret.booking[1].created_at = StartClock + 1
    /\ Len(bookings) = 1
    /\ store.state = "json" /\ Len(store.data) = 1

IsGet(c) == c.op = "get_booking"

\* positions of the records of bks carrying booking_id
Holders(bks, booking_id) == {i \in Index(bks) : bks[i].booking_id = booking_id}

\* C16: get_booking and cancel_booking with an id carried by no record return
\* None and leave the ledger and the store as they were; with an id that is
\* present, exactly one record carries it and that record is what they return.
LookupMiss ==
    [][(IsGet(call') \/ IsCancel(call')) =>
          /\ Holders(bookings, call'.booking_id) = {} =>
                /\ ret'.booking = None
                /\ bookings' = bookings
                /\ store' = store
          /\ Holders(bookings, call'.booking_id) # {} =>
                /\ Cardinality(Holders(bookings, call'.booking_id)) = 1
                /\ \A i \in Holders(bookings, call'.booking_id) :
                      /\ ret'.booking = Some(bookings'[i])
                      /\ ret'.booking[1].booking_id = call'.booking_id
          /\ IsGet(call') => (bookings' = bookings /\ store' = store)]_vars

\* C16 witness: a get_booking missed on a ledger that holds records, after a
\* cancel_booking of this run had found its record.
LookupMissWitness ==
    /\ IsGet(call)
    /\ ret.booking = None
    /\ Holders(bookings, call.booking_id) = {}
    /\ Len(bookings) >= 2
    /\ \E i \in Index(bookings) :
        /\ bookings[i].status = "cancelled"
        /\ bookings[i].cancelled_at >= StartClock

\* the step is a crash inside save_bookings: the process started again and
\* the call that was saving had read the clock
IsCrash == call' = NoCall /\ now' = now + 1

\* C17: all-or-nothing persistence: after a crash while save_bookings rewrites
\* the store, the store found at the next startup is the one from before the
\* mutation or the complete snapshot of the ledger after it, never a partial
\* one.
AllOrNothing ==
    [][IsCrash =>
          \/ store' = store
          \/ /\ store'.state = "json"
             /\ load_bookings(store') \in Saving(bookings, now)]_vars

\* C19: create_booking rejects a valid request with the no-rooms reason only
\* when some night of the requested range is already occupied by total units
\* of confirmed bookings of that type.
RejectsOnlyWhenNightFull ==
    [][(ValidRequest(call') /\ ~Accepted(ret')
            /\ ret'.message = NoRooms(call'.room_type)) =>
          \E day \in Ord(call'.check_in)..(Ord(call'.check_out) - 1) :
              Cardinality(Covering(bookings, call'.room_type, day, day + 1))
                  >= rooms[call'.room_type].total]_vars

\* C20: create_booking never answers "Error calculating availability": for
\* every request that passes the room-type check and the date-parse check,
\* available_rooms_for_range on the current ledger is a number, not None.
AvailabilityErrorUnreachable ==
    /\ ret.message # <<"Error calculating availability">>
    /\ \A q \in CreateInputs :
          (q[1] \in DOMAIN rooms /\ calculate_nights(q[2], q[3]) # None) =>
              available_rooms_for_range(bookings, q[1], q[2], q[3]) # None

\* C20 witness: a request with a known type and parseable dates went through
\* the availability check, on a ledger changed by a create and a cancel of this
\* run, and was answered from the number it returned.
AvailabilityErrorUnreachableWitness ==
    /\ ValidRequest(call)
    /\ ret.message = NoRooms(call.room_type)
    /\ available_rooms_for_range(bookings, call.room_type, call.check_in,
                                 call.check_out) = Some(0)
    /\ Len(bookings) > Len(EarlierRequests)
    /\ \E i \in Index(bookings) : bookings[i].status = "cancelled"

\* both threads have appended, and each built its record (generate_booking_id
\* included) on the ledger as it was before the other appended
Raced ==
    /\ \A t \in Threads : /\ frames[t].pc \in {"appended", "returned"}
                          /\ frames[t].booking # None
    /\ frames[1].read = frames[2].read

\* C18: create_booking is not atomic: when two calls are interleaved so that
\* both pass the availability check and generate their id before either
\* appends, the ledger ends with two records carrying the same booking_id, and
\* when both asked for the last free unit of the same night of the same room
\* type, the confirmed bookings of that night exceed the type's total units.
CreateNotAtomic ==
    Raced =>
        /\ \E i, j \in Index(bookings) :
              /\ i # j
              /\ bookings[i].booking_id = bookings[j].booking_id
        /\ (/\ frames[1].room_type = frames[2].room_type
            /\ frames[1].check_in = frames[2].check_in
            /\ frames[1].check_out = frames[2].check_out
            /\ Ord(frames[1].check_out) = Ord(frames[1].check_in) + 1
            /\ frames[1].available = 1) =>
               Cardinality(Covering(bookings, frames[1].room_type,
                                    Ord(frames[1].check_in), Ord(frames[1].check_out)))
                   > rooms[frames[1].room_type].total

\* C18 witness: after such an interleaving the ledger holds BK0006 twice, and
\* six confirmed suites on the night of 2024-02-05, one more than there are.
CreateNotAtomicWitness ==
    /\ Raced
    /\ Len(bookings) = Len(EarlierRequests) + 2
    /\ bookings[Len(bookings)].booking_id = bookings[Len(bookings) - 1].booking_id
    /\ Cardinality(Covering(bookings, "suite", Ord(<<2024, 2, 5>>), Ord(<<2024, 2, 6>>)))
           > rooms["suite"].total

====
